---- MODULE Spec2Model ----
(***************************************************************************)
(* Resume upload and profile reconciliation (database.py, main.py).        *)
(*                                                                         *)
(* A document of the "resumes" collection is a function from DocKeys to    *)
(* tagged values; the value Absent stands for a key the dict does not      *)
(* hold, Null for a key holding None.  The collection is the sequence of   *)
(* its documents in natural (insertion) order.                             *)
(*                                                                         *)
(* Spec is the sequential system: requests are handled one at a time and   *)
(* the document store and the file store answer every call.                *)
(***************************************************************************)
EXTENDS Integers, Sequences, FiniteSets, TLC

VARIABLES collection, bucket, nextOid, nextUuid, now, last, tainted, inflight, parsing

vars == <<collection, bucket, nextOid, nextUuid, now, last, tainted, inflight, parsing>>

(***************************************************************************)
(* Bounds                                                                  *)
(***************************************************************************)
\* number of requests (uploads and deletes) in one behaviour
MaxOps == 3

(***************************************************************************)
(* Values                                                                  *)
(***************************************************************************)
Absent == [t |-> "absent"]
Null == [t |-> "null"]
Str(s) == [t |-> "str", v |-> s]
List(q) == [t |-> "list", v |-> q]
Time(n) == [t |-> "time", v |-> n]
IsoTime(n) == [t |-> "iso", v |-> n]
Oid(n) == [t |-> "oid", v |-> n]
Size(n) == [t |-> "int", v |-> n]
FileName(n) == [t |-> "filename", v |-> n]
S3Key(n) == [t |-> "s3key", v |-> n]
S3Url(n) == [t |-> "s3url", v |-> n]

IsList(x) == x.t = "list"

\* a test "is not None" in place of the truth value
TruthyNotNone(x) == x # Absent /\ x # Null

\* Python truth value of a dict entry: None, "" and [] are false; so is the
\* default None that dict.get returns for a missing key.
Truthy(x) ==
    /\ x # Absent
    /\ x # Null
    /\ x # Str("")
    /\ x # List(<<>>)

Range(q) == {q[i] : i \in 1..Len(q)}

MetaKeys == {"filename", "original_filename", "s3_key", "s3_url", "file_size", "uploaded_at", "status"}

ProfileKeys == {"email", "skills", "experience", "location", "hobbies", "status", "parsed_at"}

DocKeys == {"_id", "created_at", "updated_at"} \cup MetaKeys \cup ProfileKeys

\* key in d
Has(d, k) == k \in DOMAIN d /\ d[k] # Absent

\* d.get(k, default)
Get(d, k, default) == IF Has(d, k) THEN d[k] ELSE default

EmptyDict == [k \in DocKeys |-> Absent]

\* find_one returning None, and parser.parse having raised
NoDoc == EmptyDict
NoProfile == [k \in ProfileKeys |-> Absent]

(***************************************************************************)
(* The document store                                                      *)
(***************************************************************************)
\* index of the first document whose field equals the value, 0 when none
FirstIndex(coll, key, value) ==
    IF \E i \in 1..Len(coll) : coll[i][key] = value
    THEN CHOOSE i \in 1..Len(coll) :
            /\ coll[i][key] = value
            /\ \A j \in 1..(i - 1) : coll[j][key] # value
    ELSE 0

find_one(coll, key, value) ==
    IF FirstIndex(coll, key, value) = 0 THEN NoDoc ELSE coll[FirstIndex(coll, key, value)]

\* a write that adds the fields as one more document
update_one_inserts(coll, key, value, fields) == Append(coll, fields)

\* update_one(filter, {"$set": fields}): the first match gets every key of fields
update_one(coll, key, value, fields) ==
    IF FirstIndex(coll, key, value) = 0
    THEN coll
    ELSE [coll EXCEPT ![FirstIndex(coll, key, value)] =
            [k \in DocKeys |-> IF fields[k] # Absent THEN fields[k] ELSE @[k]]]

\* insert_one: the driver gives the document a fresh ObjectId
insert_one(coll, doc, oid) == Append(coll, [doc EXCEPT !["_id"] = Oid(oid)])

\* a delete that removes nothing
delete_one_keeps(coll, id) == coll

\* delete_one({"_id": id}): the first match is removed
delete_one(coll, id) ==
    IF FirstIndex(coll, "_id", id) = 0
    THEN coll
    ELSE SubSeq(coll, 1, FirstIndex(coll, "_id", id) - 1)
            \o SubSeq(coll, FirstIndex(coll, "_id", id) + 1, Len(coll))

(***************************************************************************)
(* save_resume_with_profile                                                *)
(***************************************************************************)
\* the base document with the resume metadata
BaseDocument(resume_data, utcnow) ==
    [k \in DocKeys |->
        IF k = "uploaded_at" THEN Get(resume_data, "uploaded_at", Time(utcnow))
        ELSE IF k = "status" THEN Str("uploaded")
        ELSE IF k \in MetaKeys THEN Get(resume_data, k, Null)
        ELSE Absent]

\* list(set(xs)): the elements of xs, once each, in the order the set yields
\* them; order is the iteration order of this run
ListOfSet(xs, order) == SelectSeq(order, LAMBDA x : x \in Range(xs))

\* the iteration orders set(xs) can have
Orders(xs) == {q \in [1..Cardinality(Range(xs)) -> Range(xs)] : Range(q) = Range(xs)}

\* existing_skills + new_skills, the list the set is built from; empty when
\* no set is built
SkillsToMerge(existing_doc, profile_data) ==
    LET existing_skills == Get(existing_doc, "skills", List(<<>>))
        new_skills == Get(profile_data, "skills", List(<<>>))
    IN  IF existing_doc # NoDoc /\ IsList(existing_skills) /\ IsList(new_skills)
        THEN existing_skills.v \o new_skills.v
        ELSE <<>>

\* "Merge skills": the union of both lists when both are lists
MergeSkills(merged_profile, profile_data, order) ==
    LET existing_skills == Get(merged_profile, "skills", List(<<>>))
        new_skills == Get(profile_data, "skills", List(<<>>))
    IN  IF IsList(existing_skills) /\ IsList(new_skills)
        THEN [merged_profile EXCEPT !["skills"] = List(ListOfSet(existing_skills.v \o new_skills.v, order))]
        ELSE merged_profile

\* the loop over new_experience: an entry is appended unless combined
\* already holds one with its company and title
RECURSIVE Combine(_, _)
Combine(combined, new_experience) ==
    IF new_experience = <<>>
    THEN combined
    ELSE LET exp == Head(new_experience)
             exists == \E i \in 1..Len(combined) :
                          /\ combined[i].company = exp.company
                          /\ combined[i].title = exp.title
         IN  Combine(IF exists THEN combined ELSE Append(combined, exp), Tail(new_experience))

\* "Merge experience (deduplicate by company+title)"
MergeExperience(merged_profile, profile_data) ==
    LET existing_experience == Get(merged_profile, "experience", List(<<>>))
        new_experience == Get(profile_data, "experience", List(<<>>))
    IN  IF IsList(existing_experience) /\ IsList(new_experience)
        THEN [merged_profile EXCEPT !["experience"] = List(Combine(existing_experience.v, new_experience.v))]
        ELSE merged_profile

fields_to_update ==
    << "name", "phone", "location", "linkedin", "github", "portfolio", "summary",
       "languages", "education", "experience", "projects", "certifications",
       "awards", "publications", "volunteer_work", "leadership", "hobbies",
       "memberships", "patents", "conferences", "references", "skills" >>

\* list fields extended by the new list where the stored value is a list
UpdateFieldsExtend(merged_profile, profile_data) ==
    [k \in DocKeys |->
        IF k \in Range(fields_to_update) /\ Has(profile_data, k)
        THEN IF IsList(merged_profile[k]) /\ IsList(profile_data[k])
             THEN List(merged_profile[k].v \o profile_data[k].v)
             ELSE profile_data[k]
        ELSE merged_profile[k]]

\* fields filled only where the stored document has no value
UpdateFieldsKeepStored(merged_profile, profile_data) ==
    [k \in DocKeys |->
        IF k \in Range(fields_to_update) /\ Has(profile_data, k) /\ ~Truthy(merged_profile[k])
        THEN profile_data[k]
        ELSE merged_profile[k]]

\* "Update profile fields with latest data": every listed key the new
\* profile holds replaces the merged value
UpdateFields(merged_profile, profile_data) ==
    [k \in DocKeys |->
        IF k \in Range(fields_to_update) /\ Has(profile_data, k)
        THEN profile_data[k]
        ELSE merged_profile[k]]

\* created_at rewritten with the other timestamps
UpdateTimestampsAll(merged_profile, profile_data, utcnow) ==
    [merged_profile EXCEPT !["created_at"] = Time(utcnow),
                           !["updated_at"] = Time(utcnow),
                           !["parsed_at"] = Get(profile_data, "parsed_at", Time(utcnow))]

\* "Update timestamps"
UpdateTimestamps(merged_profile, profile_data, utcnow) ==
    [merged_profile EXCEPT !["updated_at"] = Time(utcnow),
                           !["parsed_at"] = Get(profile_data, "parsed_at", Time(utcnow))]

\* merged_profile.update(document)
DictUpdate(merged_profile, document) ==
    [k \in DocKeys |-> IF document[k] # Absent THEN document[k] ELSE merged_profile[k]]

\* the document written over the existing one
MergedProfile(existing_doc, profile_data, document, utcnow, order) ==
    DictUpdate(
        UpdateTimestamps(
            UpdateFields(
                MergeExperience(MergeSkills(existing_doc, profile_data, order), profile_data),
                profile_data),
            profile_data, utcnow),
        document)

\* every key of the profile copied, None included
NewDocumentWithNulls(document, profile_data, utcnow) ==
    [k \in DocKeys |->
        IF k \in {"created_at", "updated_at"} THEN Time(utcnow)
        ELSE IF Has(profile_data, k) THEN profile_data[k]
        ELSE document[k]]

\* "No email or new email - add profile data to document"
NewDocument(document, profile_data, utcnow) ==
    [k \in DocKeys |->
        IF k \in {"created_at", "updated_at"} THEN Time(utcnow)
        ELSE IF Has(profile_data, k) /\ profile_data[k] # Null THEN profile_data[k]
        ELSE document[k]]

\* a metadata document without its status
BareDocumentNoStatus(document, utcnow) ==
    [document EXCEPT !["created_at"] = Time(utcnow), !["status"] = Absent]

\* "No profile data - just resume metadata"
BareDocument(document, utcnow) == [document EXCEPT !["created_at"] = Time(utcnow)]

\* a lookup that queries another field
ExistingDocByLocation(coll, profile_data) ==
    IF profile_data # NoProfile /\ Truthy(Get(profile_data, "email", Null))
    THEN find_one(coll, "location", profile_data["email"])
    ELSE NoDoc

\* the document the email lookup finds, NoDoc when there is no lookup
ExistingDoc(coll, profile_data) ==
    IF profile_data # NoProfile /\ Truthy(Get(profile_data, "email", Null))
    THEN find_one(coll, "email", profile_data["email"])
    ELSE NoDoc

\* the whole function: the collection it leaves, the identifier it returns
\* and the path it took
save_resume_with_profile(coll, resume_data, profile_data, utcnow, oid, order) ==
    LET document == BaseDocument(resume_data, utcnow)
        existing_doc == ExistingDoc(coll, profile_data)
    IN  IF existing_doc # NoDoc
        THEN [coll |-> update_one(coll, "email", profile_data["email"],
                                  MergedProfile(existing_doc, profile_data, document, utcnow, order)),
              id |-> existing_doc["_id"],
              path |-> "merge",
              existing |-> existing_doc]
        ELSE [coll |-> insert_one(coll,
                                  IF profile_data # NoProfile
                                  THEN NewDocument(document, profile_data, utcnow)
                                  ELSE BareDocument(document, utcnow),
                                  oid),
              id |-> Oid(oid),
              path |-> IF profile_data # NoProfile THEN "insert" ELSE "bare",
              existing |-> NoDoc]

(***************************************************************************)
(* Inputs: uploaded files and the profiles the extraction yields           *)
(***************************************************************************)
Files == {[name |-> "cv.pdf", size |-> 1]}

AcmeEng == [company |-> "Acme", title |-> "Eng", description |-> "first"]
AcmeEngAgain == [company |-> "Acme", title |-> "Eng", description |-> "second"]
AcmeSrEng == [company |-> "Acme", title |-> "Sr Eng", description |-> "first"]
acmeEng == [company |-> "acme", title |-> "Eng", description |-> "first"]

\* a decoded reply holding the given keys
Reply(email, skills, experience, location, hobbies, status) ==
    [k \in ProfileKeys |->
        CASE k = "email" -> email
          [] k = "skills" -> skills
          [] k = "experience" -> experience
          [] k = "location" -> location
          [] k = "hobbies" -> hobbies
          [] k = "status" -> status
          [] OTHER -> Absent]

Emails == {Absent, Null, Str(""), Str("a@x.com"), Str("A@x.com")}

\* identity against skills
SkillReplies ==
    {Reply(e, List(s), Absent, Absent, Absent, Absent) :
        e \in Emails, s \in {<<"Go", "SQL">>, <<"SQL", "Rust">>}}

\* experience lists for one person
ExperienceReplies ==
    {Reply(Str("a@x.com"), Absent, List(x), Absent, Absent, Absent) :
        x \in {<<>>, <<AcmeEng>>, <<AcmeEng, AcmeSrEng>>, <<AcmeEng, AcmeEngAgain>>, <<acmeEng>>}}

\* scalar and list fields that are overwritten, null values, a reply key
\* that is also a metadata key
FieldReplies ==
    {Reply(Str("a@x.com"), Absent, Absent, l, Absent, Absent) : l \in {Null, Str("Pune"), Str("Delhi")}}
    \cup {Reply(Str("a@x.com"), Null, Absent, Absent, List(<<"chess">>), Absent),
          Reply(Str("a@x.com"), Absent, Absent, Absent, List(<<>>), Str("hired"))}

\* a reply that fills every field
FullReply ==
    Reply(Str("a@x.com"), List(<<"Go", "SQL">>), List(<<AcmeEng, AcmeSrEng>>), Str("Pune"),
          List(<<"chess">>), Absent)

Replies == SkillReplies \cup ExperienceReplies \cup FieldReplies \cup {FullReply}

\* parse_with_gemini adds the parse metadata to the decoded reply
parse_with_gemini(reply, utcnow) == [reply EXCEPT !["parsed_at"] = IsoTime(utcnow)]

\* two entries of the list have the same (company, title)
HasDuplicatePair(x) ==
    \E i, j \in 1..Len(x) : i < j /\ x[i].company = x[j].company /\ x[i].title = x[j].title

(***************************************************************************)
(* The endpoints                                                           *)
(***************************************************************************)
\* resume_data of upload_resume for the file stored under the uuid
ResumeData(file, uuid) ==
    [k \in MetaKeys \ {"uploaded_at", "status"} |->
        CASE k = "filename" -> FileName(uuid)
          [] k = "original_filename" -> Str(file.name)
          [] k = "s3_key" -> S3Key(uuid)
          [] k = "s3_url" -> S3Url(uuid)
          [] k = "file_size" -> Size(file.size)]

\* last: the request handled last, with its inputs, the path taken by
\* save_resume_with_profile, the document found by the lookup (or deleted),
\* the identifier returned and the collection as it was before the request.
\* tainted: the documents that received an experience list holding the same
\* (company, title) twice.
NoResumeData == [k \in MetaKeys \ {"uploaded_at", "status"} |-> Absent]

\* inflight: for each of the requests served at the same time, where its
\* upload stands between the lookup and the write of save_resume_with_profile
Requests == {"X", "Y"}

Idle == [pc |-> "idle"]

\* parsing: the run of ResumeParser.parse under way, none in the runs of
\* the endpoints
NotParsing == [pc |-> "none"]

Init ==
    /\ collection = <<>>
    /\ bucket = {}
    /\ nextOid = 1
    /\ nextUuid = 1
    /\ now = 1
    /\ last = [op |-> "none", resume_data |-> NoResumeData, profile |-> NoProfile, path |-> "none",
               existing |-> NoDoc, id |-> Null, before |-> <<>>]
    /\ tainted = {}
    /\ inflight = [p \in Requests |-> Idle]
    /\ parsing = NotParsing

\* POST /upload-resume: the file is put in the bucket, parsed, and saved
\* with the profile; parsed_data stays None when parsing raised
upload_resume_within(requests, file, parsed_data, order) ==
    LET saved == save_resume_with_profile(collection, ResumeData(file, nextUuid),
                                          parsed_data, now, nextOid, order)
        dup == /\ IsList(Get(parsed_data, "experience", Null))
               /\ HasDuplicatePair(parsed_data["experience"].v)
    IN  /\ now <= requests
        /\ bucket' = bucket \cup {S3Key(nextUuid)}
        /\ collection' = saved.coll
        /\ nextUuid' = nextUuid + 1
        /\ nextOid' = IF saved.path = "merge" THEN nextOid ELSE nextOid + 1
        /\ now' = now + 1
        /\ last' = [op |-> "upload", resume_data |-> ResumeData(file, nextUuid), profile |-> parsed_data,
                    path |-> saved.path, existing |-> saved.existing, id |-> saved.id,
                    before |-> collection]
        /\ tainted' = IF dup THEN tainted \cup {saved.id} ELSE tainted
        /\ UNCHANGED <<inflight, parsing>>

\* the upload in a run of at most MaxOps requests
upload_resume(file, parsed_data, order) == upload_resume_within(MaxOps, file, parsed_data, order)

\* DELETE /resumes/{resume_id}: 404 when the document is not there;
\* otherwise the document and then its file are deleted
delete_resume_endpoint_within(requests, resume_id) ==
    LET resume_data == find_one(collection, "_id", resume_id)
    IN  /\ now <= requests
        /\ resume_data # NoDoc
        /\ collection' = delete_one(collection, resume_id)
        /\ bucket' = IF Truthy(resume_data["s3_key"]) THEN bucket \ {resume_data["s3_key"]} ELSE bucket
        /\ now' = now + 1
        /\ last' = [op |-> "delete", resume_data |-> NoResumeData, profile |-> NoProfile, path |-> "none",
                    existing |-> resume_data, id |-> resume_id, before |-> collection]
        /\ tainted' = tainted \ {resume_id}
        /\ UNCHANGED <<nextOid, nextUuid, inflight, parsing>>

\* the delete in a run of at most MaxOps requests
delete_resume_endpoint(resume_id) == delete_resume_endpoint_within(MaxOps, resume_id)

\* the orders the skills set of this upload can be read in
UploadOrders(parsed_data) ==
    Orders(SkillsToMerge(ExistingDoc(collection, parsed_data), parsed_data))

Upload ==
    \E file \in Files, reply \in Replies :
        \E order \in UploadOrders(parse_with_gemini(reply, now)) :
            upload_resume(file, parse_with_gemini(reply, now), order)

UploadUnparsed ==
    \E file \in Files : upload_resume(file, NoProfile, <<>>)

Delete ==
    \E i \in 1..Len(collection) : delete_resume_endpoint(collection[i]["_id"])

Next == Upload \/ UploadUnparsed \/ Delete

Spec == Init /\ [][Next]_vars

(***************************************************************************)
(* Uploads during which the document store fails                           *)
(***************************************************************************)
\* the exceptions upload_resume catches around save_resume_with_profile
Caught == {"ConnectionFailure", "OperationFailure", "ValueError"}

\* what a failing document store makes save_resume_with_profile raise:
\* OperationFailure (raised again by the except clause), ConnectionFailure
\* and the ValueError of a missing MONGODB_URI
StorageFailures == {"ConnectionFailure", "OperationFailure", "ValueError"}

\* the call made once more after the failure
save_raising_retried(coll, resume_data, profile_data, utcnow, oid, order, failure) ==
    [save_resume_with_profile(coll, resume_data, profile_data, utcnow, oid, order)
        EXCEPT !.path = failure]

\* save_resume_with_profile when a call to the document store raises: no
\* write has happened and the exception leaves the function
save_raising(coll, resume_data, profile_data, utcnow, oid, order, failure) ==
    [coll |-> coll, id |-> Null, path |-> failure, existing |-> NoDoc]

\* the profiles uploaded in the runs with a failing document store
FailReplies ==
    {FullReply,
     Reply(Str("a@x.com"), Null, Absent, Absent, List(<<"chess">>), Absent),
     Reply(Str("A@x.com"), List(<<"SQL", "Rust">>), Absent, Absent, Absent, Absent)}

\* POST /upload-resume with the document store failing in
\* save_resume_with_profile: the file is already in the bucket
upload_resume_storage_fails(file, parsed_data, failure) ==
    LET saved == save_raising(collection, ResumeData(file, nextUuid), parsed_data, now, nextOid,
                              <<>>, failure)
    IN  /\ now <= MaxOps
        /\ bucket' = bucket \cup {S3Key(nextUuid)}
        /\ collection' = saved.coll
        /\ nextUuid' = nextUuid + 1
        /\ now' = now + 1
        /\ last' = [op |-> "upload", resume_data |-> ResumeData(file, nextUuid), profile |-> parsed_data,
                    path |-> saved.path, existing |-> saved.existing, id |-> saved.id,
                    before |-> collection]
        /\ UNCHANGED <<nextOid, tainted, inflight, parsing>>

UploadStorageFails ==
    \E file \in Files, reply \in FailReplies, failure \in StorageFailures :
        upload_resume_storage_fails(file, parse_with_gemini(reply, now), failure)

UploadUnparsedStorageFails ==
    \E file \in Files, failure \in StorageFailures :
        upload_resume_storage_fails(file, NoProfile, failure)

UploadSome ==
    \E file \in Files, reply \in FailReplies :
        \E order \in UploadOrders(parse_with_gemini(reply, now)) :
            upload_resume(file, parse_with_gemini(reply, now), order)

NextFail == UploadSome \/ UploadUnparsed \/ Delete \/ UploadStorageFails \/ UploadUnparsedStorageFails

SpecFail == Init /\ [][NextFail]_vars

(***************************************************************************)
(* Uploads served at the same time: the lookup and the write of            *)
(* save_resume_with_profile are two calls to the document store, and the   *)
(* calls of another request can come between them                          *)
(***************************************************************************)
MaxUploads == 3

\* the profiles uploaded in the runs with requests served at the same time
ConcReplies ==
    {Reply(Str("a@x.com"), List(<<"Python">>), Absent, Str("Pune"), Absent, Absent),
     Reply(Str("a@x.com"), List(<<"Go">>), Absent, Str("Delhi"), Absent, Absent),
     Reply(Str("a@x.com"), Absent, Absent, Absent, List(<<"chess">>), Absent)}

\* a write that merges into the document stored now
write_back_reread(coll, existing_doc, document, profile_data, utcnow, oid, order) ==
    LET fresh == ExistingDoc(coll, profile_data)
    IN  IF existing_doc # NoDoc
        THEN [coll |-> update_one(coll, "email", profile_data["email"],
                                  MergedProfile(fresh, profile_data, document, utcnow,
                                                CHOOSE o \in Orders(SkillsToMerge(fresh, profile_data)) : TRUE)),
              id |-> existing_doc["_id"], path |-> "merge"]
        ELSE [coll |-> insert_one(coll, NewDocument(document, profile_data, utcnow), oid),
              id |-> Oid(oid), path |-> "insert"]

\* save_resume_with_profile after its lookup: the merge is computed from
\* the document the lookup returned and written with update_one, or the
\* new document is inserted
write_back(coll, existing_doc, document, profile_data, utcnow, oid, order) ==
    IF existing_doc # NoDoc
    THEN [coll |-> update_one(coll, "email", profile_data["email"],
                              MergedProfile(existing_doc, profile_data, document, utcnow, order)),
          id |-> existing_doc["_id"], path |-> "merge"]
    ELSE [coll |-> insert_one(coll, NewDocument(document, profile_data, utcnow), oid),
          id |-> Oid(oid), path |-> "insert"]

\* upload_resume up to the lookup of save_resume_with_profile: the file is
\* in the bucket, the profile is parsed and the stored document is read
begin_upload(p, file, parsed_data) ==
    /\ inflight[p].pc = "idle"
    /\ nextUuid <= MaxUploads
    /\ bucket' = bucket \cup {S3Key(nextUuid)}
    /\ nextUuid' = nextUuid + 1
    /\ now' = now + 1
    /\ inflight' = [inflight EXCEPT ![p] =
            [pc |-> "read", resume_data |-> ResumeData(file, nextUuid), profile |-> parsed_data,
             document |-> BaseDocument(ResumeData(file, nextUuid), now),
             existing |-> ExistingDoc(collection, parsed_data)]]
    /\ UNCHANGED <<collection, nextOid, last, tainted, parsing>>

\* the rest of upload_resume: the write of save_resume_with_profile
finish_upload(p, order) ==
    /\ inflight[p].pc = "read"
    /\ LET req == inflight[p]
           saved == write_back(collection, req.existing, req.document, req.profile, now, nextOid, order)
       IN  /\ collection' = saved.coll
           /\ nextOid' = IF saved.path = "merge" THEN nextOid ELSE nextOid + 1
           /\ last' = [op |-> "upload", resume_data |-> req.resume_data, profile |-> req.profile,
                       path |-> saved.path, existing |-> req.existing, id |-> saved.id,
                       before |-> collection]
    /\ now' = now + 1
    /\ inflight' = [inflight EXCEPT ![p] = Idle]
    /\ UNCHANGED <<bucket, nextUuid, tainted, parsing>>

BeginUpload ==
    \E p \in Requests, file \in Files, reply \in ConcReplies :
        begin_upload(p, file, parse_with_gemini(reply, now))

FinishUpload ==
    \E p \in Requests :
        /\ inflight[p].pc = "read"
        /\ \E order \in Orders(SkillsToMerge(inflight[p].existing, inflight[p].profile)) :
                finish_upload(p, order)

NextConc == BeginUpload \/ FinishUpload

SpecConc == Init /\ [][NextConc]_vars

(***************************************************************************)
(* ResumeParser: strings and the patterns matched on them                  *)
(***************************************************************************)
\* A text is a sequence of strings, and a string standing between two
\* others is either white space or set off from them by white space.  For
\* each string of the runs the table gives whether it is white space,
\* its length (one string stands for a long run of body text, and
\* "<fence>" for the three backquotes that open or close a code block), whether
\* url_pattern matches it, which of the words tested with "in" its
\* lower case holds, and what the three partial patterns find in it.
Lexicon ==
    {[s |-> " ", len |-> 1, space |-> TRUE, url |-> FALSE,
      words |-> {},
      p1 |-> <<>>, p2 |-> <<>>, p3 |-> <<>>],
     [s |-> "\n", len |-> 1, space |-> TRUE, url |-> FALSE,
      words |-> {},
      p1 |-> <<>>, p2 |-> <<>>, p3 |-> <<>>],
     [s |-> "Jane", len |-> 4, space |-> FALSE, url |-> FALSE,
      words |-> {},
      p1 |-> <<>>, p2 |-> <<>>, p3 |-> <<>>],
     [s |-> "Experienced software engineer with ten years of backend work.", len |-> 61, space |-> FALSE, url |-> FALSE,
      words |-> {},
      p1 |-> <<>>, p2 |-> <<>>, p3 |-> <<>>],
     [s |-> "[Extracted URLs from PDF (including embedded hyperlinks):]", len |-> 58, space |-> FALSE, url |-> FALSE,
      words |-> {},
      p1 |-> <<>>, p2 |-> <<>>, p3 |-> <<>>],
     [s |-> "linkedin: ", len |-> 10, space |-> FALSE, url |-> FALSE,
      words |-> {"linkedin"},
      p1 |-> <<>>, p2 |-> <<>>, p3 |-> <<>>],
     [s |-> "github: ", len |-> 8, space |-> FALSE, url |-> FALSE,
      words |-> {"github"},
      p1 |-> <<>>, p2 |-> <<>>, p3 |-> <<>>],
     [s |-> "portfolio: ", len |-> 11, space |-> FALSE, url |-> FALSE,
      words |-> {"portfolio"},
      p1 |-> <<>>, p2 |-> <<>>, p3 |-> <<>>],
     [s |-> "https://linkedin.com/in/a", len |-> 25, space |-> FALSE, url |-> TRUE,
      words |-> {"linkedin", "http"},
      p1 |-> <<"linkedin.com/in/a">>, p2 |-> <<>>, p3 |-> <<"linkedin.com/in/a">>],
     [s |-> "https://linkedin.com/in/b", len |-> 25, space |-> FALSE, url |-> TRUE,
      words |-> {"linkedin", "http"},
      p1 |-> <<"linkedin.com/in/b">>, p2 |-> <<>>, p3 |-> <<"linkedin.com/in/b">>],
     [s |-> "https://github.com/a", len |-> 20, space |-> FALSE, url |-> TRUE,
      words |-> {"github", "http"},
      p1 |-> <<>>, p2 |-> <<"github.com/a">>, p3 |-> <<>>],
     [s |-> "https://github.com/b", len |-> 20, space |-> FALSE, url |-> TRUE,
      words |-> {"github", "http"},
      p1 |-> <<>>, p2 |-> <<"github.com/b">>, p3 |-> <<>>],
     [s |-> "https://me.dev", len |-> 14, space |-> FALSE, url |-> TRUE,
      words |-> {"http"},
      p1 |-> <<>>, p2 |-> <<>>, p3 |-> <<>>],
     [s |-> "https://blog.example.com", len |-> 24, space |-> FALSE, url |-> TRUE,
      words |-> {"http"},
      p1 |-> <<>>, p2 |-> <<>>, p3 |-> <<>>],
     [s |-> "linkedin.com/in/jdoe", len |-> 20, space |-> FALSE, url |-> FALSE,
      words |-> {"linkedin"},
      p1 |-> <<"linkedin.com/in/jdoe">>, p2 |-> <<>>, p3 |-> <<"linkedin.com/in/jdoe">>],
     [s |-> "linkedin.com/in/kdoe", len |-> 20, space |-> FALSE, url |-> FALSE,
      words |-> {"linkedin"},
      p1 |-> <<"linkedin.com/in/kdoe">>, p2 |-> <<>>, p3 |-> <<"linkedin.com/in/kdoe">>],
     [s |-> "github.com/jdoe", len |-> 15, space |-> FALSE, url |-> FALSE,
      words |-> {"github"},
      p1 |-> <<>>, p2 |-> <<"github.com/jdoe">>, p3 |-> <<>>],
     [s |-> "linkedin.com/company/acme", len |-> 25, space |-> FALSE, url |-> FALSE,
      words |-> {"linkedin"},
      p1 |-> <<>>, p2 |-> <<>>, p3 |-> <<"linkedin.com/company/acme">>],
     [s |-> "www.linkedin.com/in/ann", len |-> 23, space |-> FALSE, url |-> FALSE,
      words |-> {"linkedin"},
      p1 |-> <<"linkedin.com/in/ann">>, p2 |-> <<>>, p3 |-> <<"linkedin.com/in/ann">>],
     [s |-> "mailto:me@x.com", len |-> 15, space |-> FALSE, url |-> FALSE,
      words |-> {},
      p1 |-> <<>>, p2 |-> <<>>, p3 |-> <<>>],
     [s |-> "<19950 characters of body text>", len |-> 19950, space |-> FALSE, url |-> FALSE,
      words |-> {},
      p1 |-> <<>>, p2 |-> <<>>, p3 |-> <<>>],
     [s |-> "<fence>", len |-> 3, space |-> FALSE, url |-> FALSE,
      words |-> {},
      p1 |-> <<>>, p2 |-> <<>>, p3 |-> <<>>],
     [s |-> "json", len |-> 4, space |-> FALSE, url |-> FALSE,
      words |-> {},
      p1 |-> <<>>, p2 |-> <<>>, p3 |-> <<>>],
     [s |-> "{", len |-> 1, space |-> FALSE, url |-> FALSE,
      words |-> {},
      p1 |-> <<>>, p2 |-> <<>>, p3 |-> <<>>],
     [s |-> "}", len |-> 1, space |-> FALSE, url |-> FALSE,
      words |-> {},
      p1 |-> <<>>, p2 |-> <<>>, p3 |-> <<>>],
     [s |-> "[", len |-> 1, space |-> FALSE, url |-> FALSE,
      words |-> {},
      p1 |-> <<>>, p2 |-> <<>>, p3 |-> <<>>],
     [s |-> "]", len |-> 1, space |-> FALSE, url |-> FALSE,
      words |-> {},
      p1 |-> <<>>, p2 |-> <<>>, p3 |-> <<>>],
     [s |-> "\"email\": \"a@x.com\"", len |-> 18, space |-> FALSE, url |-> FALSE,
      words |-> {},
      p1 |-> <<>>, p2 |-> <<>>, p3 |-> <<>>],
     [s |-> "\"summary\": \"", len |-> 12, space |-> FALSE, url |-> FALSE,
      words |-> {},
      p1 |-> <<>>, p2 |-> <<>>, p3 |-> <<>>],
     [s |-> "\"", len |-> 1, space |-> FALSE, url |-> FALSE,
      words |-> {},
      p1 |-> <<>>, p2 |-> <<>>, p3 |-> <<>>],
     [s |-> "pip install", len |-> 11, space |-> FALSE, url |-> FALSE,
      words |-> {},
      p1 |-> <<>>, p2 |-> <<>>, p3 |-> <<>>],
     [s |-> "Here is the JSON:", len |-> 17, space |-> FALSE, url |-> FALSE,
      words |-> {},
      p1 |-> <<>>, p2 |-> <<>>, p3 |-> <<>>],
     [s |-> "Sorry, I cannot read this resume.", len |-> 33, space |-> FALSE, url |-> FALSE,
      words |-> {},
      p1 |-> <<>>, p2 |-> <<>>, p3 |-> <<>>],
     [s |-> "https://www.linkedin.com/in/a", len |-> 29, space |-> FALSE, url |-> TRUE,
      words |-> {"linkedin", "http"},
      p1 |-> <<"linkedin.com/in/a">>, p2 |-> <<>>, p3 |-> <<"linkedin.com/in/a">>],
     [s |-> "https://www.linkedin.com/in/b", len |-> 29, space |-> FALSE, url |-> TRUE,
      words |-> {"linkedin", "http"},
      p1 |-> <<"linkedin.com/in/b">>, p2 |-> <<>>, p3 |-> <<"linkedin.com/in/b">>],
     [s |-> "https://www.github.com/a", len |-> 24, space |-> FALSE, url |-> TRUE,
      words |-> {"github", "http"},
      p1 |-> <<>>, p2 |-> <<"github.com/a">>, p3 |-> <<>>],
     [s |-> "https://www.github.com/b", len |-> 24, space |-> FALSE, url |-> TRUE,
      words |-> {"github", "http"},
      p1 |-> <<>>, p2 |-> <<"github.com/b">>, p3 |-> <<>>],
     [s |-> "https://www.linkedin.com/in/jdoe", len |-> 32, space |-> FALSE, url |-> TRUE,
      words |-> {"linkedin", "http"},
      p1 |-> <<"linkedin.com/in/jdoe">>, p2 |-> <<>>, p3 |-> <<"linkedin.com/in/jdoe">>],
     [s |-> "https://www.linkedin.com/in/kdoe", len |-> 32, space |-> FALSE, url |-> TRUE,
      words |-> {"linkedin", "http"},
      p1 |-> <<"linkedin.com/in/kdoe">>, p2 |-> <<>>, p3 |-> <<"linkedin.com/in/kdoe">>],
     [s |-> "https://www.github.com/jdoe", len |-> 27, space |-> FALSE, url |-> TRUE,
      words |-> {"github", "http"},
      p1 |-> <<>>, p2 |-> <<"github.com/jdoe">>, p3 |-> <<>>],
     [s |-> "https://www.linkedin.com/company/acme", len |-> 37, space |-> FALSE, url |-> TRUE,
      words |-> {"linkedin", "http"},
      p1 |-> <<>>, p2 |-> <<>>, p3 |-> <<"linkedin.com/company/acme">>],
     [s |-> "https://www.linkedin.com/in/ann", len |-> 31, space |-> FALSE, url |-> TRUE,
      words |-> {"linkedin", "http"},
      p1 |-> <<"linkedin.com/in/ann">>, p2 |-> <<>>, p3 |-> <<"linkedin.com/in/ann">>]}

Attr(s) == CHOOSE r \in Lexicon : r.s = s

Words(s) == Attr(s).words

\* the length below which parse takes the text for unreadable
MinTextLen == 50

RECURSIVE TextLen(_)
\* len(text)
TextLen(text) == IF text = <<>> THEN 0 ELSE Attr(Head(text)).len + TextLen(Tail(text))

RECURSIVE lstrip(_)
lstrip(text) ==
    IF text # <<>> /\ Attr(Head(text)).space THEN lstrip(Tail(text)) ELSE text

RECURSIVE rstrip(_)
rstrip(text) ==
    IF text # <<>> /\ Attr(text[Len(text)]).space THEN rstrip(SubSeq(text, 1, Len(text) - 1)) ELSE text

\* text.strip()
strip(text) == rstrip(lstrip(text))

\* a dict of links, its entries in insertion order
NoLinks == <<>>

DictHas(d, key) == \E i \in 1..Len(d) : d[i].key = key

DictGet(d, key) == d[CHOOSE i \in 1..Len(d) : d[i].key = key].url

\* d[key] = url
DictSet(d, key, url) ==
    IF DictHas(d, key)
    THEN [i \in 1..Len(d) |-> IF d[i].key = key THEN [key |-> key, url |-> url] ELSE d[i]]
    ELSE Append(d, [key |-> key, url |-> url])

\* re.findall(url_pattern, text, re.IGNORECASE)
found_urls(text) == SelectSeq(text, LAMBDA s : Attr(s).url)

\* a loop body that keeps the first URL of every category
classify_url_first(urls, url) ==
    LET key == IF "linkedin" \in Words(url) THEN "linkedin"
               ELSE IF "github" \in Words(url) THEN "github"
               ELSE "portfolio"
    IN  IF DictHas(urls, key) THEN urls ELSE DictSet(urls, key, url)

\* the body of the loop over found_urls
classify_url(urls, url) ==
    IF "linkedin" \in Words(url) THEN DictSet(urls, "linkedin", url)
    ELSE IF "github" \in Words(url) THEN DictSet(urls, "github", url)
    ELSE IF \/ "portfolio" \in Words(url)
            \/ "website" \in Words(url)
            \/ "http" \in Words(url)
         THEN IF ~DictHas(urls, "portfolio") THEN DictSet(urls, "portfolio", url) ELSE urls
    ELSE urls

RECURSIVE ScanUrls(_, _)
\* for url in found_urls
ScanUrls(found, urls) ==
    IF found = <<>> THEN urls ELSE ScanUrls(Tail(found), classify_url(urls, Head(found)))

RECURSIVE Matches(_, _)
\* re.findall(pattern, text, re.IGNORECASE) for a partial pattern
Matches(text, pattern) ==
    IF text = <<>> THEN <<>> ELSE Attr(Head(text))[pattern] \o Matches(Tail(text), pattern)

partial_patterns ==
    <<[pattern |-> "p1", key |-> "linkedin", prefix |-> "https://www."],
      [pattern |-> "p2", key |-> "github", prefix |-> "https://www."],
      [pattern |-> "p3", key |-> "linkedin", prefix |-> "https://www."]>>

\* a loop body that stores the match whatever the dict holds
ApplyPartialReplaces(text, urls, partial) ==
    LET matches == Matches(text, partial.pattern)
    IN  IF matches # <<>>
        THEN DictSet(urls, partial.key, partial.prefix \o matches[1])
        ELSE urls

\* the body of the loop over partial_patterns
ApplyPartial(text, urls, partial) ==
    LET matches == Matches(text, partial.pattern)
    IN  IF matches # <<>> /\ ~DictHas(urls, partial.key)
        THEN DictSet(urls, partial.key, partial.prefix \o matches[1])
        ELSE urls

extract_urls_from_text(text) ==
    ApplyPartial(text,
        ApplyPartial(text,
            ApplyPartial(text, ScanUrls(found_urls(text), NoLinks), partial_patterns[1]),
            partial_patterns[2]),
        partial_patterns[3])

(***************************************************************************)
(* ResumeParser.extract_text                                               *)
(***************************************************************************)
\* the body of the loop over the link annotations of a page
classify_annotation(hyperlinks, uri) ==
    IF "linkedin" \in Words(uri) THEN DictSet(hyperlinks, "linkedin", uri)
    ELSE IF "github" \in Words(uri) THEN DictSet(hyperlinks, "github", uri)
    ELSE IF "portfolio" \in Words(uri) \/ "http" \in Words(uri)
         THEN IF ~DictHas(hyperlinks, "portfolio") THEN DictSet(hyperlinks, "portfolio", uri)
              ELSE hyperlinks
    ELSE hyperlinks

RECURSIVE ReadAnnotations(_, _)
ReadAnnotations(annots, hyperlinks) ==
    IF annots = <<>> THEN hyperlinks
    ELSE ReadAnnotations(Tail(annots), classify_annotation(hyperlinks, Head(annots)))

RECURSIVE ReadPages(_, _, _)
\* the loop over pdf.pages: the text of a page is added when it is not
\* empty; the annotations of a page are read unless reaching them raises,
\* which the loop passes over
ReadPages(pages, text, hyperlinks) ==
    IF pages = <<>> THEN [text |-> text, hyperlinks |-> hyperlinks]
    ELSE LET page == Head(pages)
         IN  ReadPages(Tail(pages),
                       IF page.text # <<>> THEN text \o page.text \o <<"\n">> ELSE text,
                       IF page.broken THEN hyperlinks ELSE ReadAnnotations(page.annots, hyperlinks))

RECURSIVE MergeLinksTextWins(_, _)
\* a merge in which the URL scanned from the text replaces the entry
MergeLinksTextWins(hyperlinks, text_urls) ==
    IF text_urls = <<>> THEN hyperlinks
    ELSE MergeLinksTextWins(DictSet(hyperlinks, Head(text_urls).key, Head(text_urls).url),
                            Tail(text_urls))

RECURSIVE MergeLinks(_, _)
\* "Merge hyperlinks (annotations take priority)"
MergeLinks(hyperlinks, text_urls) ==
    IF text_urls = <<>> THEN hyperlinks
    ELSE MergeLinks(IF ~DictHas(hyperlinks, Head(text_urls).key)
                    THEN DictSet(hyperlinks, Head(text_urls).key, Head(text_urls).url)
                    ELSE hyperlinks,
                    Tail(text_urls))

RECURSIVE UrlLines(_)
\* the lines "key: url"
UrlLines(hyperlinks) ==
    IF hyperlinks = <<>> THEN <<>>
    ELSE <<Head(hyperlinks).key \o ": ", Head(hyperlinks).url, "\n">> \o UrlLines(Tail(hyperlinks))

\* "Append extracted URLs to text for Gemini to use"
UrlBlock(hyperlinks) ==
    IF hyperlinks # <<>>
    THEN <<"\n", "\n", "[Extracted URLs from PDF (including embedded hyperlinks):]", "\n">>
         \o UrlLines(hyperlinks)
    ELSE <<>>

\* the text of the pages, as the loop of extract_text leaves it
PageText(pdf) == ReadPages(pdf.pages, <<>>, NoLinks).text

\* the links read from the annotations
AnnotationLinks(pdf) == ReadPages(pdf.pages, <<>>, NoLinks).hyperlinks

\* extract_text: the stripped text with the block of links, and the dict of
\* links it was built from; an error when the file cannot be opened or read
extract_text(pdf) ==
    IF pdf.corrupt
    THEN [error |-> "Failed to extract text from PDF", text |-> <<>>, hyperlinks |-> NoLinks]
    ELSE LET hyperlinks == MergeLinks(AnnotationLinks(pdf), extract_urls_from_text(PageText(pdf)))
         IN  [error |-> "",
              text |-> strip(PageText(pdf) \o UrlBlock(hyperlinks)),
              hyperlinks |-> hyperlinks]

(***************************************************************************)
(* ResumeParser.parse                                                      *)
(***************************************************************************)
LinkKeys == {"linkedin", "github", "portfolio"}

\* a post-processing that stores every URL found
BackfillAlways(parsed_data, extracted_urls) ==
    [key \in LinkKeys |->
        IF DictHas(extracted_urls, key)
        THEN Str(DictGet(extracted_urls, key))
        ELSE parsed_data[key]]

\* "Post-process: Fill in URLs if Gemini didn't extract them but we found them"
Backfill(parsed_data, extracted_urls) ==
    [key \in LinkKeys |->
        IF ~Truthy(parsed_data[key]) /\ DictHas(extracted_urls, key)
        THEN Str(DictGet(extracted_urls, key))
        ELSE parsed_data[key]]

\* the number of characters of the text that go into the prompt
MaxPromptLen == 20000

RECURSIVE Truncate(_, _)
\* text[:n], in whole strings: a string cut by the limit is left out,
\* what is left of it being no longer that string
Truncate(text, n) ==
    IF text = <<>> \/ Attr(Head(text)).len > n THEN <<>>
    ELSE <<Head(text)>> \o Truncate(Tail(text), n - Attr(Head(text)).len)

\* the pages of the runs
Para == "Experienced software engineer with ten years of backend work."

Page(text, annots, broken) == [text |-> text, annots |-> annots, broken |-> broken]

Pages ==
    {Page(<<>>, <<>>, FALSE),
     Page(<<" ">>, <<>>, FALSE),
     Page(<<"Jane">>, <<>>, FALSE),
     Page(<<"Jane">>, <<"www.linkedin.com/in/ann", "mailto:me@x.com">>, FALSE),
     Page(<<Para, " ", "https://linkedin.com/in/a", " ", "https://github.com/a", " ",
            "https://linkedin.com/in/b", " ", "https://github.com/b", " ", "linkedin.com/in/jdoe">>,
          <<>>, FALSE),
     Page(<<Para, " ", "https://blog.example.com", " ", "https://me.dev">>,
          <<"https://github.com/b">>, TRUE),
     Page(<<"https://blog.example.com">>, <<"https://me.dev", "https://blog.example.com">>, FALSE),
     Page(<<Para>>, <<"https://linkedin.com/in/a", "https://linkedin.com/in/b",
                      "https://github.com/a", "https://github.com/b">>, FALSE),
     Page(<<Para, "\n", "linkedin.com/in/jdoe", " ", "github.com/jdoe", " ", "linkedin.com/in/kdoe">>,
          <<>>, FALSE),
     Page(<<"linkedin.com/company/acme", " ", "github.com/jdoe">>, <<"https://github.com/a">>, FALSE),
     Page(<<"<19950 characters of body text>">>, <<"https://me.dev">>, FALSE)}

MaxPages == 2

RECURSIVE SeqsUpTo(_, _)
\* the sequences of at most n elements of S
SeqsUpTo(S, n) ==
    IF n = 0 THEN {<<>>}
    ELSE SeqsUpTo(S, n - 1) \cup {Append(q, x) : q \in SeqsUpTo(S, n - 1), x \in S}

PDFs ==
    {[pages |-> pages, corrupt |-> FALSE] : pages \in SeqsUpTo(Pages, MaxPages)}
        \cup {[pages |-> <<>>, corrupt |-> TRUE]}

\* the link fields of the replies of the service, and a call that raises
Links(linkedin, github, portfolio) ==
    [key \in LinkKeys |->
        CASE key = "linkedin" -> linkedin
          [] key = "github" -> github
          [] key = "portfolio" -> portfolio]

ServiceReplies ==
    {[ok |-> TRUE, data |-> Links(Null, Null, Null)],
     [ok |-> TRUE, data |-> Links(Str(""), Absent, Null)],
     [ok |-> TRUE, data |-> Links(Str("https://linkedin.com/in/svc"), Str("https://github.com/svc"),
                                  Str("https://svc.example.com"))],
     [ok |-> TRUE, data |-> Links(Null, Str("https://github.com/svc"), Absent)],
     [ok |-> FALSE, data |-> Links(Absent, Absent, Absent)]}

\* a run of parse that has not started
Parsing(pdf, reply) ==
    [pc |-> "start", pdf |-> pdf, reply |-> reply, text |-> <<>>, hyperlinks |-> NoLinks,
     extracted_urls |-> NoLinks, parsed_data |-> Links(Absent, Absent, Absent),
     error |-> "", called |-> FALSE, prompt_text |-> <<>>]

InitParse ==
    /\ collection = <<>>
    /\ bucket = {}
    /\ nextOid = 1
    /\ nextUuid = 1
    /\ now = 1
    /\ last = [op |-> "none", resume_data |-> NoResumeData, profile |-> NoProfile, path |-> "none",
               existing |-> NoDoc, id |-> Null, before |-> <<>>]
    /\ tainted = {}
    /\ inflight = [p \in Requests |-> Idle]
    /\ \E pdf \in PDFs, reply \in ServiceReplies : parsing = Parsing(pdf, reply)

Store == <<collection, bucket, nextOid, nextUuid, now, last, tainted, inflight>>

\* text = self.extract_text(pdf_content)
ExtractText ==
    /\ parsing.pc = "start"
    /\ LET extracted == extract_text(parsing.pdf)
       IN  parsing' = IF extracted.error # ""
                      THEN [parsing EXCEPT !.pc = "failed", !.error = extracted.error]
                      ELSE [parsing EXCEPT !.pc = "extracted", !.text = extracted.text,
                                           !.hyperlinks = extracted.hyperlinks]
    /\ UNCHANGED Store

\* a test that lets every text through that is not empty
CheckReadableNotEmpty ==
    /\ parsing.pc = "extracted"
    /\ parsing' = IF parsing.text = <<>>
                  THEN [parsing EXCEPT !.pc = "failed",
                                       !.error = "PDF appears to be empty or unreadable"]
                  ELSE [parsing EXCEPT !.pc = "readable"]
    /\ UNCHANGED Store

\* if not text or len(text.strip()) < 50: raise ValueError
CheckReadable ==
    /\ parsing.pc = "extracted"
    /\ parsing' = IF parsing.text = <<>> \/ TextLen(strip(parsing.text)) < MinTextLen
                  THEN [parsing EXCEPT !.pc = "failed",
                                       !.error = "PDF appears to be empty or unreadable"]
                  ELSE [parsing EXCEPT !.pc = "readable"]
    /\ UNCHANGED Store

\* extracted_urls = self.extract_urls_from_text(text)
ScanText ==
    /\ parsing.pc = "readable"
    /\ parsing' = [parsing EXCEPT !.pc = "scanned",
                                  !.extracted_urls = extract_urls_from_text(parsing.text)]
    /\ UNCHANGED Store

\* parsed_data = self.parse_with_gemini(text)
CallService ==
    /\ parsing.pc = "scanned"
    /\ parsing' = IF parsing.reply.ok
                  THEN [parsing EXCEPT !.pc = "replied", !.called = TRUE,
                                       !.prompt_text = Truncate(parsing.text, MaxPromptLen),
                                       !.parsed_data = parsing.reply.data]
                  ELSE [parsing EXCEPT !.pc = "failed", !.called = TRUE,
                                       !.prompt_text = Truncate(parsing.text, MaxPromptLen),
                                       !.error = "Gemini API error"]
    /\ UNCHANGED Store

\* the post-processing and the return
FillLinks ==
    /\ parsing.pc = "replied"
    /\ parsing' = [parsing EXCEPT !.pc = "done",
                                  !.parsed_data = Backfill(parsing.parsed_data, parsing.extracted_urls)]
    /\ UNCHANGED Store

NextParse == ExtractText \/ CheckReadable \/ ScanText \/ CallService \/ FillLinks

SpecParse == InitParse /\ [][NextParse]_vars

(***************************************************************************)
(* ResumeParser.parse_with_gemini: the reply of the service                *)
(***************************************************************************)
Fence == <<"<fence>">>

FenceJson == <<"<fence>", "json">>

\* the first place where sep stands in text, 0 when there is none
IndexOf(text, sep) ==
    LET places == {i \in 1..(Len(text) - Len(sep) + 1) : SubSeq(text, i, i + Len(sep) - 1) = sep}
    IN  IF places = {} THEN 0 ELSE CHOOSE i \in places : \A j \in places : i <= j

\* sep in text
Contains(text, sep) == IndexOf(text, sep) # 0

\* text.split(sep)[0]
SplitFirst(text, sep) ==
    IF Contains(text, sep) THEN SubSeq(text, 1, IndexOf(text, sep) - 1) ELSE text

\* text.split(sep)[1], for a text that holds sep
SplitSecond(text, sep) ==
    SplitFirst(SubSeq(text, IndexOf(text, sep) + Len(sep), Len(text)), sep)

\* "Try to find JSON in the response (might be wrapped in markdown code blocks)"
unwrap(response_text) ==
    IF Contains(response_text, FenceJson)
    THEN strip(SplitFirst(SplitSecond(response_text, FenceJson), Fence))
    ELSE IF Contains(response_text, Fence)
    THEN strip(SplitFirst(SplitSecond(response_text, Fence), Fence))
    ELSE response_text

Members == {"\"email\": \"a@x.com\""}

RECURSIVE JsonScan(_, _)
\* the state in which a JSON decoder ends on the text: "end" after one
\* whole object or array, "error" on anything else
JsonScan(text, state) ==
    IF text = <<>> THEN state
    ELSE LET s == Head(text)
             next ==
                 CASE state = "start" ->
                        IF Attr(s).space THEN "start"
                        ELSE IF s = "{" THEN "object"
                        ELSE IF s = "[" THEN "array"
                        ELSE "error"
                   [] state = "object" ->
                        IF Attr(s).space \/ s \in Members THEN "object"
                        ELSE IF s = "\"summary\": \"" THEN "string"
                        ELSE IF s = "}" THEN "end"
                        ELSE "error"
                   [] state = "string" ->
                        IF s = "\"" THEN "object"
                        ELSE IF s = "\n" THEN "error"
                        ELSE "string"
                   [] state = "array" ->
                        IF Attr(s).space THEN "array"
                        ELSE IF s = "]" THEN "end"
                        ELSE "error"
                   [] state = "end" ->
                        IF Attr(s).space THEN "end" ELSE "error"
                   [] OTHER -> "error"
         IN  JsonScan(Tail(text), next)

\* json.loads(text): the value, written without the white space between
\* its parts, or a JSONDecodeError
json_loads(text) ==
    IF JsonScan(text, "start") = "end"
    THEN [ok |-> TRUE,
          value |-> SelectSeq(text, LAMBDA s : ~Attr(s).space),
          dict |-> strip(text)[1] = "{"]
    ELSE [ok |-> FALSE, value |-> <<>>, dict |-> FALSE]

\* the payloads of the replies: objects, one with a code block in a string
\* and one with the word json after the fence, an array, a cut object and
\* a sentence
Payloads ==
    {<<"{", "\"email\": \"a@x.com\"", "}">>,
     <<"{", "\n", "\"email\": \"a@x.com\"", "\n", "}">>,
     <<"{", "\"summary\": \"", "<fence>", "pip install", "<fence>", "\"", "}">>,
     <<"{", "\"email\": \"a@x.com\"", "\"summary\": \"", "<fence>", "json", "\"", "}">>,
     <<"[", "]">>,
     <<"{", "\"email\": \"a@x.com\"">>,
     <<"Sorry, I cannot read this resume.">>}

Wrappers == {"none", "json", "plain"}

\* the text of a reply
ReplyText(reply) ==
    reply.prefix
        \o (CASE reply.wrapper = "json" -> <<"<fence>", "json", "\n">> \o reply.payload \o <<"\n", "<fence>">>
              [] reply.wrapper = "plain" -> <<"<fence>", "\n">> \o reply.payload \o <<"\n", "<fence>">>
              [] OTHER -> reply.payload)
        \o reply.suffix

RawReplies ==
    [payload : Payloads, wrapper : Wrappers,
     prefix : {<<>>, <<"\n">>, <<"Here is the JSON:", "\n">>},
     suffix : {<<>>, <<"\n">>},
     raises : BOOLEAN]

InitReply ==
    /\ collection = <<>>
    /\ bucket = {}
    /\ nextOid = 1
    /\ nextUuid = 1
    /\ now = 1
    /\ last = [op |-> "none", resume_data |-> NoResumeData, profile |-> NoProfile, path |-> "none",
               existing |-> NoDoc, id |-> Null, before |-> <<>>]
    /\ tainted = {}
    /\ inflight = [p \in Requests |-> Idle]
    /\ \E reply \in RawReplies, model \in BOOLEAN :
            parsing = [pc |-> "prompt", model |-> model, reply |-> reply, response_text |-> <<>>,
                       parsed_data |-> <<>>, error |-> ""]

\* the test of self.model, generate_content and response.text.strip()
GenerateContent ==
    /\ parsing.pc = "prompt"
    /\ parsing' =
          IF ~parsing.model
          THEN [parsing EXCEPT !.pc = "raised",
                               !.error = "Gemini API key not configured or model initialization failed"]
          ELSE IF parsing.reply.raises
          THEN [parsing EXCEPT !.pc = "raised", !.error = "Gemini API error"]
          ELSE [parsing EXCEPT !.pc = "reply", !.response_text = strip(ReplyText(parsing.reply))]
    /\ UNCHANGED Store

\* the two branches that look for a code block
StripWrapper ==
    /\ parsing.pc = "reply"
    /\ parsing' = [parsing EXCEPT !.pc = "unwrapped", !.response_text = unwrap(parsing.response_text)]
    /\ UNCHANGED Store

\* parsed_data = json.loads(response_text)
DecodeReply ==
    /\ parsing.pc = "unwrapped"
    /\ parsing' =
          IF json_loads(parsing.response_text).ok
          THEN [parsing EXCEPT !.pc = "decoded", !.parsed_data = json_loads(parsing.response_text).value]
          ELSE [parsing EXCEPT !.pc = "raised", !.error = "Failed to parse Gemini response as JSON"]
    /\ UNCHANGED Store

\* "Add metadata": an item assignment, which a value that is not a dict
\* does not take
AddMetadata ==
    /\ parsing.pc = "decoded"
    /\ parsing' =
          IF json_loads(parsing.response_text).dict
          THEN [parsing EXCEPT !.pc = "returned"]
          ELSE [parsing EXCEPT !.pc = "raised", !.error = "Gemini API error"]
    /\ UNCHANGED Store

NextReply == GenerateContent \/ StripWrapper \/ DecodeReply \/ AddMetadata

SpecReply == InitReply /\ [][NextReply]_vars

(***************************************************************************)
(* The endpoints that list, edit and clear the stored profiles             *)
(***************************************************************************)
\* str(doc["_id"])
OidStr(oid) == [t |-> "oidstr", v |-> oid.v]

\* the _id of the group a document falls in under {"$group": {"_id": "$email"}}:
\* a missing field groups with null
GroupId(doc) == IF doc["email"] = Absent THEN Null ELSE doc["email"]

GroupIds(coll) == {GroupId(coll[i]) : i \in 1..Len(coll)}

\* the documents of a group that can stand first without the sort
first_of_group_unsorted(coll, id) ==
    {coll[i] : i \in {j \in 1..Len(coll) : GroupId(coll[j]) = id}}

\* the documents of a group that can stand first after
\* {"$sort": {"uploaded_at": -1}}: those with the greatest uploaded_at
first_of_group(coll, id) ==
    {coll[i] : i \in {j \in 1..Len(coll) :
        /\ GroupId(coll[j]) = id
        /\ \A k \in 1..Len(coll) :
              GroupId(coll[k]) = id => coll[k]["uploaded_at"].v <= coll[j]["uploaded_at"].v}}

Min(a, b) == IF a <= b THEN a ELSE b

\* get_all_user_profiles(limit): the lists the pipeline can return, as sets
\* (the order of the groups is not fixed): one document for each of up to
\* limit groups, its _id made a string
get_all_user_profiles(coll, limit) ==
    {{[choice[id] EXCEPT !["_id"] = OidStr(@)] : id \in ids} :
        ids \in {s \in SUBSET GroupIds(coll) : Cardinality(s) = Min(limit, Cardinality(GroupIds(coll)))},
        choice \in {c \in [GroupIds(coll) -> Range(coll)] :
                        \A id \in GroupIds(coll) : c[id] \in first_of_group(coll, id)}}

MaxLimit == 2

\* the requests of a run with the listing, editing and clearing endpoints
MaxManageOps == 5

\* the request handled last, for the endpoints that answer with a status
\* code or a list
Handled(op, body, existing, id, status_code, result) ==
    [op |-> op, resume_data |-> NoResumeData, profile |-> body, path |-> "none",
     existing |-> existing, id |-> id, before |-> collection,
     status_code |-> status_code, result |-> result]

\* a listing of the profiles
list_user_profiles(limit, result) ==
    /\ now <= MaxManageOps
    /\ now' = now + 1
    /\ last' = Handled("profiles", NoProfile, NoDoc, Size(limit), 200, result)
    /\ UNCHANGED <<collection, bucket, nextOid, nextUuid, tainted, inflight, parsing>>

ListProfiles ==
    \E limit \in 1..MaxLimit :
        \E result \in get_all_user_profiles(collection, limit) : list_user_profiles(limit, result)

\* the keys of allowed_fields
allowed_fields == {"email", "location", "skills", "experience", "hobbies"}

\* update_resume_profile: the allowed fields of the data and updated_at are
\* set on the document; True when the document was modified
update_resume_profile(coll, resume_id, profile_data, utcnow) ==
    LET update_data ==
            [k \in DocKeys |->
                IF k \in allowed_fields /\ Has(profile_data, k) THEN profile_data[k]
                ELSE IF k = "updated_at" THEN Time(utcnow)
                ELSE Absent]
        written == update_one(coll, "_id", resume_id, update_data)
    IN  IF \A k \in DocKeys : update_data[k] = Absent
        THEN [coll |-> coll, updated |-> FALSE]
        ELSE [coll |-> written, updated |-> written # coll]

\* the bodies of the requests PUT /resumes/{id}/profile
PutBodies ==
    {NoProfile,
     Reply(Absent, Absent, Absent, Absent, Absent, Str("archived")),
     Reply(Str("a@x.com"), Absent, Absent, Absent, Absent, Absent),
     Reply(Absent, Absent, Absent, Str("Delhi"), Absent, Str("archived"))}

\* an identifier no document has
MissingId == Oid(0)

\* PUT /resumes/{resume_id}/profile
update_resume_profile_endpoint(resume_id, profile_data) ==
    LET resume == find_one(collection, "_id", resume_id)
        saved == update_resume_profile(collection, resume_id, profile_data, now)
    IN  /\ now <= MaxManageOps
        /\ now' = now + 1
        /\ collection' = IF resume = NoDoc THEN collection ELSE saved.coll
        /\ last' = Handled("update_profile", profile_data, resume, resume_id,
                           IF resume = NoDoc THEN 404 ELSE IF saved.updated THEN 200 ELSE 400,
                           {})
        /\ UNCHANGED <<bucket, nextOid, nextUuid, tainted, inflight, parsing>>

UpdateProfile ==
    \E resume_id \in {collection[i]["_id"] : i \in 1..Len(collection)} \cup {MissingId}, body \in PutBodies :
        update_resume_profile_endpoint(resume_id, body)

\* the keys of profile_fields_to_remove
profile_fields_to_remove == {"email", "location", "skills", "experience", "parsed_at"}

\* update_one(filter, {"$unset": fields}): the first match loses the fields
unset_one(coll, key, value, fields) ==
    IF FirstIndex(coll, key, value) = 0
    THEN coll
    ELSE [coll EXCEPT ![FirstIndex(coll, key, value)] =
            [k \in DocKeys |-> IF k \in fields THEN Absent ELSE @[k]]]

\* DELETE /resumes/{resume_id}/profile
delete_resume_from_profile(resume_id) ==
    LET resume_data == find_one(collection, "_id", resume_id)
    IN  /\ now <= MaxManageOps
        /\ now' = now + 1
        /\ collection' = IF resume_data = NoDoc THEN collection
                         ELSE unset_one(collection, "_id", resume_id, profile_fields_to_remove)
        /\ last' = Handled("delete_profile", NoProfile, resume_data, resume_id,
                           IF resume_data = NoDoc THEN 404 ELSE 200, {})
        /\ UNCHANGED <<bucket, nextOid, nextUuid, tainted, inflight, parsing>>

DeleteProfile ==
    \E resume_id \in {collection[i]["_id"] : i \in 1..Len(collection)} \cup {MissingId} :
        delete_resume_from_profile(resume_id)

\* the profiles uploaded in these runs
ManageReplies ==
    {FullReply,
     Reply(Str("A@x.com"), List(<<"SQL", "Rust">>), Absent, Absent, Absent, Absent)}

ManageUpload ==
    \E file \in Files, reply \in ManageReplies :
        \E order \in UploadOrders(parse_with_gemini(reply, now)) :
            upload_resume_within(MaxManageOps, file, parse_with_gemini(reply, now), order)

ManageUploadUnparsed ==
    \E file \in Files : upload_resume_within(MaxManageOps, file, NoProfile, <<>>)

ManageDelete ==
    \E i \in 1..Len(collection) : delete_resume_endpoint_within(MaxManageOps, collection[i]["_id"])

NextManage ==
    ManageUpload \/ ManageUploadUnparsed \/ ManageDelete \/ UpdateProfile \/ DeleteProfile \/ ListProfiles

SpecManage == Init /\ [][NextManage]_vars

\* get_resume_by_s3_key
get_resume_by_s3_key(coll, s3_key) == find_one(coll, "s3_key", s3_key)

\* len(parsed_data.get(key, [])) raises for a value that has no length
HasLen(parsed_data, key) == IsList(Get(parsed_data, key, List(<<>>)))

\* the answer of the handler "except Exception"
ServerError ==
    [status_code |-> 500, s3_key |-> Absent, s3_url |-> Absent, filename |-> Absent,
     mongodb_id |-> Absent, parsed_data |-> Absent]

\* the answer of upload_resume once the file is stored: 200 with the file
\* metadata, the identifier when one was saved and a summary of the parsed
\* data when there is some; 500 when building the summary raises
upload_response(resume_data, parsed_data, mongodb_id) ==
    IF parsed_data # NoProfile /\ ~(HasLen(parsed_data, "skills") /\ HasLen(parsed_data, "experience"))
    THEN ServerError
    ELSE [status_code |-> 200,
          s3_key |-> resume_data["s3_key"],
          s3_url |-> resume_data["s3_url"],
          filename |-> resume_data["filename"],
          mongodb_id |-> IF Truthy(mongodb_id) THEN mongodb_id ELSE Absent,
          parsed_data |-> IF parsed_data # NoProfile
                          THEN [email |-> Get(parsed_data, "email", Null),
                                skills_count |-> Len(Get(parsed_data, "skills", List(<<>>)).v),
                                experience_count |-> Len(Get(parsed_data, "experience", List(<<>>)).v)]
                          ELSE Absent]

(***************************************************************************)
(* Properties                                                              *)
(***************************************************************************)
\* the last request was an upload that merged into a stored document
Merged == last.op = "upload" /\ last.path = "merge"

\* the last request was an upload that inserted a document with a profile
Inserted == last.op = "upload" /\ last.path = "insert"

\* the stored document the last upload wrote
Written == find_one(collection, "_id", last.id)

SkillSet(x) == IF IsList(x) THEN Range(x.v) ELSE {}

ExperienceOf(x) == IF IsList(x) THEN x.v ELSE <<>>

SamePair(a, b) == a.company = b.company /\ a.title = b.title

Max(a, b) == IF a >= b THEN a ELSE b

\* P followed by the entries of N, from the j-th on, whose pair occurs
\* neither in P nor earlier in N
RECURSIVE FollowedByNew(_, _, _)
FollowedByNew(P, N, j) ==
    IF j > Len(N)
    THEN P
    ELSE LET fresh == /\ \A i \in 1..Len(P) : ~SamePair(P[i], N[j])
                      /\ \A i \in 1..(j - 1) : ~SamePair(N[i], N[j])
             rest == FollowedByNew(P, N, j + 1)
         IN  IF fresh
             THEN SubSeq(rest, 1, Len(P)) \o <<N[j]>> \o SubSeq(rest, Len(P) + 1, Len(rest))
             ELSE rest

\* C1: after a merge the stored skills, as a set, contain every skill of
\* the stored profile and every skill of the new extraction.
C1_SkillsAccumulate ==
    (Merged /\ IsList(last.existing["skills"]) /\ IsList(last.profile["skills"])) =>
        (SkillSet(last.existing["skills"]) \cup SkillSet(last.profile["skills"]))
            \subseteq SkillSet(Written["skills"])

\* C3: after a merge the stored experience list is the stored list followed,
\* in order, by exactly the new entries whose (company, title) pair does not
\* occur in the list built so far.
C3_ExperienceAppended ==
    (Merged /\ IsList(last.existing["experience"]) /\ IsList(last.profile["experience"])) =>
        ExperienceOf(Written["experience"])
            = FollowedByNew(ExperienceOf(last.existing["experience"]),
                            ExperienceOf(last.profile["experience"]), 1)

\* C4: after a merge the stored experience list is at least as long as the
\* longer of the stored list and the new list.
C4_ExperienceLength ==
    (Merged /\ IsList(last.existing["experience"]) /\ IsList(last.profile["experience"])) =>
        Len(ExperienceOf(Written["experience"]))
            >= Max(Len(ExperienceOf(last.existing["experience"])),
                   Len(ExperienceOf(last.profile["experience"])))

\* the stored documents before the last request that hold the email
WithEmail(coll, email) == {i \in 1..Len(coll) : coll[i]["email"] = email}

Ids(coll) == {coll[i]["_id"] : i \in 1..Len(coll)}

\* C2: an upload whose email is that of a stored document updates and does
\* not insert: the documents are as many as before and keep their
\* identifiers, only the matched document is written, and its identifier
\* is the one returned.
C2_UpdateNotInsert ==
    (/\ last.op = "upload"
     /\ Truthy(last.profile["email"])
     /\ WithEmail(last.before, last.profile["email"]) # {})
    =>
    (/\ last.path = "merge"
     /\ Len(collection) = Len(last.before)
     /\ \A i \in 1..Len(collection) :
            /\ collection[i]["_id"] = last.before[i]["_id"]
            /\ i \notin WithEmail(last.before, last.profile["email"]) => collection[i] = last.before[i]
     /\ last.id = last.existing["_id"]
     /\ last.existing["email"] = last.profile["email"]
     /\ Written["email"] = last.profile["email"])

\* a merge into a document that an earlier upload had already merged into
C2_Witness ==
    /\ Merged
    /\ last.existing["updated_at"] # last.existing["created_at"]
    /\ last.id = Oid(1)
    /\ Written["created_at"] = Time(1)

\* C5: when the new extraction has the skills and the experience of the
\* stored profile, the merge leaves the skills equal as a set and the
\* experience list of the same length.
C5_Idempotent ==
    (/\ Merged
     /\ last.profile["skills"] = last.existing["skills"]
     /\ last.profile["experience"] = last.existing["experience"])
    =>
    (/\ SkillSet(Written["skills"]) = SkillSet(last.existing["skills"])
     /\ Len(ExperienceOf(Written["experience"])) = Len(ExperienceOf(last.existing["experience"])))

\* the same full profile uploaded for the third time
C5_Witness ==
    /\ Merged
    /\ last.profile["skills"] = last.existing["skills"]
    /\ last.profile["experience"] = last.existing["experience"]
    /\ last.existing["updated_at"] # last.existing["created_at"]
    /\ SkillSet(Written["skills"]) = {"Go", "SQL"}
    /\ Len(ExperienceOf(Written["experience"])) = 2

\* C6: a document that only received experience lists with pairwise
\* distinct (company, title) pairs never holds the same pair twice.
C6_NoDuplicatePairs ==
    \A i \in 1..Len(collection) :
        (collection[i]["_id"] \notin tainted /\ IsList(collection[i]["experience"]))
            => ~HasDuplicatePair(collection[i]["experience"].v)

\* [Acme/Eng] stored, [Acme/Eng, Acme/Sr Eng] uploaded: two entries stored
C6_Witness ==
    /\ Merged
    /\ last.existing["experience"] = List(<<AcmeEng>>)
    /\ last.profile["experience"] = List(<<AcmeEng, AcmeSrEng>>)
    /\ Len(ExperienceOf(Written["experience"])) = 2
    /\ last.id \notin tainted

\* the overwrite fields of the merge policy
OverwriteFields ==
    {"name", "phone", "location", "linkedin", "github", "portfolio", "summary", "languages",
     "education", "projects", "certifications", "awards", "publications", "volunteer_work",
     "leadership", "hobbies", "memberships"}

\* C7: after a merge every overwrite field the new extraction supplies with
\* a non-null value holds that value, whatever was stored.
C7_LastWriteWins ==
    Merged =>
        \A f \in OverwriteFields \cap ProfileKeys :
            (Has(last.profile, f) /\ last.profile[f] # Null) => Written[f] = last.profile[f]

\* a stored location replaced by a different one
C7_Witness ==
    /\ Merged
    /\ last.existing["location"] = Str("Pune")
    /\ last.profile["location"] = Str("Delhi")
    /\ Written["location"] = Str("Delhi")

\* C8: no two stored documents carry the same non-empty email.
C8_OnePerEmail ==
    \A i, j \in 1..Len(collection) :
        (i # j /\ Truthy(collection[i]["email"])) => collection[i]["email"] # collection[j]["email"]

\* a repeated upload for one of two stored emails
C8_Witness ==
    /\ Merged
    /\ \E i \in 1..Len(collection) :
          /\ Truthy(collection[i]["email"])
          /\ collection[i]["email"] # last.profile["email"]

\* C9: an upload whose profile has no email (absent, null or empty) inserts
\* a document under a new identifier and leaves every stored document as it
\* was; a merge happens only into a document whose email is equal to the
\* new one.
C9_NoEmailInserts ==
    (last.op = "upload" /\ last.profile # NoProfile) =>
        /\ last.profile["email"] \in {Absent, Null, Str("")} =>
              /\ last.path = "insert"
              /\ last.id \notin Ids(last.before)
              /\ Len(collection) = Len(last.before) + 1
              /\ SubSeq(collection, 1, Len(last.before)) = last.before
              /\ collection[Len(collection)]["_id"] = last.id
        /\ last.path = "merge" =>
              /\ last.existing["email"] = last.profile["email"]
              /\ \E i \in 1..Len(last.before) : last.before[i] = last.existing

\* a profile with the empty email uploaded while a document with the empty
\* email is stored
C9_Witness ==
    /\ Inserted
    /\ last.profile["email"] = Str("")
    /\ WithEmail(last.before, Str("")) # {}
    /\ Len(collection) = Len(last.before) + 1

Response ==
    IF last.path \in StorageFailures \ Caught
    THEN ServerError
    ELSE upload_response(last.resume_data, last.profile, last.id)

\* C11: a merge keeps created_at of the stored document and rewrites
\* updated_at and parsed_at; created_at never follows updated_at.
C11_CreatedAtKept ==
    /\ Merged =>
          /\ Written["created_at"] = last.existing["created_at"]
          /\ Written["updated_at"] = Time(now - 1)
          /\ Written["parsed_at"] = IsoTime(now - 1)
    /\ \A i \in 1..Len(collection) :
          Has(collection[i], "updated_at") => collection[i]["created_at"].v <= collection[i]["updated_at"].v

\* a second merge into the document inserted first
C11_Witness ==
    /\ Merged
    /\ last.existing["updated_at"] = Time(2)
    /\ Written["created_at"] = Time(1)
    /\ Written["updated_at"] = Time(3)
    /\ Written["parsed_at"] = IsoTime(3)

\* C12: when the extraction fails the upload still answers 200 with the
\* file metadata and no profile data, the file stays in the bucket, and a
\* document with the metadata and status "uploaded" and no profile field
\* is stored and found by its storage key.
C12_ExtractionFailureKeepsUpload ==
    (last.op = "upload" /\ last.profile = NoProfile /\ last.path \notin StorageFailures) =>
        /\ last.path = "bare"
        /\ last.resume_data["s3_key"] \in bucket
        /\ Response.status_code = 200
        /\ Response.s3_key = last.resume_data["s3_key"]
        /\ Response.s3_url = last.resume_data["s3_url"]
        /\ Response.parsed_data = Absent
        /\ Response.mongodb_id = last.id
        /\ get_resume_by_s3_key(collection, last.resume_data["s3_key"]) = Written
        /\ Written # NoDoc
        /\ Written["status"] = Str("uploaded")
        /\ \A k \in MetaKeys \ {"uploaded_at", "status"} : Written[k] = last.resume_data[k]
        /\ \A k \in (ProfileKeys \ MetaKeys) \cup {"updated_at"} : Written[k] = Absent

\* an upload whose extraction failed, after another upload
C12_Witness ==
    /\ last.op = "upload"
    /\ last.profile = NoProfile
    /\ last.path = "bare"
    /\ Len(collection) = 2
    /\ Written["skills"] = Absent
    /\ Response.status_code = 200

\* the document store failed during the last upload
StorageFailed == last.op = "upload" /\ last.path \in StorageFailures

MatchedBefore == find_one(last.before, "email", last.profile["email"])

\* another request wrote the document between the lookup and the write of
\* the last upload
StaleRead == Merged /\ MatchedBefore # NoDoc /\ MatchedBefore # last.existing

\* C14: the write of a merge is last-write-wins: every field the merge
\* holds is stored as computed from the document the upload read, whatever
\* another upload wrote to the document since, and nothing stops two
\* uploads for one email from reading before either writes.
C14_LastWriteWins ==
    Merged =>
        /\ Len(collection) = Len(last.before)
        /\ \E order \in Orders(SkillsToMerge(last.existing, last.profile)),
                 began \in 1..(now - 1), written \in 1..(now - 1) :
              LET merged == MergedProfile(last.existing, last.profile,
                                          BaseDocument(last.resume_data, began), written, order)
                  i == FirstIndex(last.before, "email", last.profile["email"])
              IN  i # 0 =>
                      \A k \in DocKeys :
                          collection[i][k] = IF merged[k] # Absent THEN merged[k] ELSE last.before[i][k]

\* two uploads for a stored email have both read it; the first to write
\* stored a location and skills, and the write of the second put back the
\* values it had read
C14_Witness ==
    /\ StaleRead
    /\ \A p \in Requests : inflight[p].pc = "idle"
    /\ ~Has(last.profile, "location")
    /\ MatchedBefore["location"] = Str("Delhi")
    /\ Written["location"] = Str("Pune")
    /\ MatchedBefore["skills"] = List(<<"Go">>)
    /\ Written["skills"] = List(<<"Python">>)

(***************************************************************************)
(* Properties of ResumeParser                                              *)
(***************************************************************************)
\* parse has returned the parsed data
Parsed == parsing.pc = "done"

\* extract_text has returned
Extracted == parsing.pc \notin {"none", "start"} /\ ~parsing.pdf.corrupt

\* C15: a link field to which the service gave a value that is neither
\* null nor empty is returned by parse with that value, whatever URL was
\* found for the category.
C15_BackfillKeepsValue ==
    Parsed =>
        \A key \in LinkKeys :
            Truthy(parsing.reply.data[key]) => parsing.parsed_data[key] = parsing.reply.data[key]

\* the service gave a code-hosting link and the document holds another
C15_Witness ==
    /\ Parsed
    /\ Truthy(parsing.reply.data["github"])
    /\ DictHas(parsing.hyperlinks, "github")
    /\ DictHas(parsing.extracted_urls, "github")
    /\ Str(DictGet(parsing.extracted_urls, "github")) # parsing.reply.data["github"]
    /\ Str(DictGet(parsing.hyperlinks, "github")) # parsing.reply.data["github"]
    /\ parsing.parsed_data["github"] = parsing.reply.data["github"]

\* C16: a link field the service left null or empty is returned with the
\* entry of its category in the dict of links built by extract_text, and
\* as the service left it when the dict has no such entry.
C16_BackfillFromLinkMap ==
    Parsed =>
        \A key \in LinkKeys :
            ~Truthy(parsing.reply.data[key]) =>
                parsing.parsed_data[key] =
                    IF DictHas(parsing.hyperlinks, key)
                    THEN Str(DictGet(parsing.hyperlinks, key))
                    ELSE parsing.reply.data[key]

\* C17: in the dict of links built by extract_text, a category for which
\* an annotation gave a URL holds that URL whatever the scan of the text
\* found, and any other category holds what the scan of the text found.
C17_AnnotationWins ==
    Extracted =>
        LET annotated == AnnotationLinks(parsing.pdf)
            scanned == extract_urls_from_text(PageText(parsing.pdf))
        IN  \A key \in LinkKeys :
                /\ DictHas(annotated, key) =>
                        /\ DictHas(parsing.hyperlinks, key)
                        /\ DictGet(parsing.hyperlinks, key) = DictGet(annotated, key)
                /\ ~DictHas(annotated, key) =>
                        /\ DictHas(parsing.hyperlinks, key) <=> DictHas(scanned, key)
                        /\ DictHas(scanned, key) =>
                                DictGet(parsing.hyperlinks, key) = DictGet(scanned, key)

\* an annotation and the text give different URLs for a category
C17_Witness ==
    /\ Extracted
    /\ DictHas(AnnotationLinks(parsing.pdf), "portfolio")
    /\ DictHas(extract_urls_from_text(PageText(parsing.pdf)), "portfolio")
    /\ DictGet(AnnotationLinks(parsing.pdf), "portfolio")
           # DictGet(extract_urls_from_text(PageText(parsing.pdf)), "portfolio")
    /\ DictGet(parsing.hyperlinks, "portfolio") = DictGet(AnnotationLinks(parsing.pdf), "portfolio")

\* the category a URL of the text falls in
UrlCategory(url) ==
    IF "linkedin" \in Words(url) THEN "linkedin"
    ELSE IF "github" \in Words(url) THEN "github"
    ELSE "portfolio"

\* the category the URI of an annotation falls in
AnnotationCategory(uri) ==
    IF "linkedin" \in Words(uri) THEN "linkedin"
    ELSE IF "github" \in Words(uri) THEN "github"
    ELSE IF "portfolio" \in Words(uri) \/ "http" \in Words(uri) THEN "portfolio"
    ELSE "none"

RECURSIVE AnnotationsRead(_)
\* the URIs of the annotations, in reading order
AnnotationsRead(pages) ==
    IF pages = <<>> THEN <<>>
    ELSE (IF Head(pages).broken THEN <<>> ELSE Head(pages).annots) \o AnnotationsRead(Tail(pages))

\* C18: for every category, the URL kept is the first of the category in
\* reading order, among the URLs of the text as among the annotations.
C18_FirstFoundWins ==
    Extracted =>
        LET urls == found_urls(PageText(parsing.pdf))
            scanned == ScanUrls(urls, NoLinks)
            uris == AnnotationsRead(parsing.pdf.pages)
            annotated == AnnotationLinks(parsing.pdf)
        IN  \A key \in LinkKeys :
                /\ DictHas(scanned, key) =>
                        DictGet(scanned, key) = Head(SelectSeq(urls, LAMBDA u : UrlCategory(u) = key))
                /\ DictHas(annotated, key) =>
                        DictGet(annotated, key) = Head(SelectSeq(uris, LAMBDA u : AnnotationCategory(u) = key))

\* C19: when a partial pattern for linkedin.com/in/<handle> or
\* github.com/<user> matches the text, the entry of the category is the URL
\* of an annotation, else the absolute URL of the text, and only without
\* both "https://www." followed by the first match.
C19_SchemelessPrefixed ==
    Extracted =>
        LET text == PageText(parsing.pdf)
            annotated == AnnotationLinks(parsing.pdf)
            absolute == ScanUrls(found_urls(text), NoLinks)
        IN  \A i \in {1, 2} :
                LET key == partial_patterns[i].key
                    matches == Matches(text, partial_patterns[i].pattern)
                IN  matches # <<>> =>
                        /\ DictHas(parsing.hyperlinks, key)
                        /\ DictGet(parsing.hyperlinks, key) =
                              IF DictHas(annotated, key) THEN DictGet(annotated, key)
                              ELSE IF DictHas(absolute, key) THEN DictGet(absolute, key)
                              ELSE "https://www." \o matches[1]

\* two addresses without a scheme and nothing else of the category: the
\* first one is kept, with the prefix
C19_Witness ==
    /\ Extracted
    /\ Len(Matches(PageText(parsing.pdf), "p1")) = 2
    /\ ~DictHas(AnnotationLinks(parsing.pdf), "linkedin")
    /\ ~DictHas(ScanUrls(found_urls(PageText(parsing.pdf)), NoLinks), "linkedin")
    /\ DictGet(parsing.hyperlinks, "linkedin") = "https://www.linkedin.com/in/jdoe"
    /\ DictGet(parsing.hyperlinks, "github") = "https://www.github.com/jdoe"

\* parse is past the test of the text
Checked == Extracted /\ parsing.pc # "extracted"

Unreadable == parsing.pc = "failed" /\ parsing.error = "PDF appears to be empty or unreadable"

SomePageHasText == \E i \in 1..Len(parsing.pdf.pages) : parsing.pdf.pages[i].text # <<>>

NoAnnotations ==
    \A i \in 1..Len(parsing.pdf.pages) :
        parsing.pdf.pages[i].annots = <<>> \/ parsing.pdf.pages[i].broken

\* C20: with a page that has text the extraction returns a text that is
\* not empty and parse does not fail as unreadable; with no text on any
\* page and no annotation parse fails as unreadable and the service is not
\* called.
C20_TextMeansReadable ==
    Checked =>
        /\ SomePageHasText => (parsing.text # <<>> /\ ~Unreadable)
        /\ (~SomePageHasText /\ NoAnnotations) => (Unreadable /\ ~parsing.called)

\* C20, amended: parse fails as unreadable exactly when the text of the
\* pages with the block of links, stripped, is shorter than 50 characters,
\* whether or not a page has text; this is so with no text on any page and
\* no annotation, it is never so when a link was found, and then the
\* service is not called.
C20_ShortTextUnreadable ==
    Checked =>
        /\ Unreadable <=>
              TextLen(strip(PageText(parsing.pdf) \o UrlBlock(parsing.hyperlinks))) < 50
        /\ (~SomePageHasText /\ NoAnnotations) => Unreadable
        /\ parsing.hyperlinks # NoLinks => ~Unreadable
        /\ Unreadable => ~parsing.called

\* a page has text, too short, and parse fails as unreadable
C20_Witness ==
    /\ Unreadable
    /\ SomePageHasText
    /\ TextLen(parsing.text) = 4
    /\ ~parsing.called

(***************************************************************************)
(* Properties of the decoding of the reply                                 *)
(***************************************************************************)
\* parse_with_gemini has returned or raised on a reply of the service
Replied == parsing.pc \in {"returned", "raised"} /\ parsing.model /\ ~parsing.reply.raises

OnlySpace(text) == \A i \in 1..Len(text) : Attr(text[i]).space

\* the reply is a payload, bare or in one code block, and nothing else
PayloadOnly == OnlySpace(parsing.reply.prefix) /\ OnlySpace(parsing.reply.suffix)

\* C21: a reply that is a decodable object, bare or in one code block, is
\* decoded to that object, and a reply that is no decodable payload raises
\* the error of a reply that cannot be decoded.
C21_DecodesThePayload ==
    (Replied /\ PayloadOnly) =>
        IF json_loads(parsing.reply.payload).ok
        THEN json_loads(parsing.reply.payload).dict =>
                /\ parsing.pc = "returned"
                /\ parsing.parsed_data = json_loads(parsing.reply.payload).value
        ELSE /\ parsing.pc = "raised"
             /\ parsing.error = "Failed to parse Gemini response as JSON"

\* C22: when the dict of links is not empty, the text put in the prompt,
\* cut to its first 20,000 characters, holds the line "key: url" of every
\* entry of the dict.
C22_PromptHoldsEveryLink ==
    (parsing.pc \in {"replied", "done", "failed"} /\ parsing.called) =>
        \A i \in 1..Len(parsing.hyperlinks) :
            Contains(parsing.prompt_text,
                     <<parsing.hyperlinks[i].key \o ": ", parsing.hyperlinks[i].url>>)

(***************************************************************************)
(* Properties of the listing, editing and clearing endpoints               *)
(***************************************************************************)
\* the stored documents with this email
DocsWithEmail(coll, email) == {coll[i] : i \in WithEmail(coll, email)}

\* C23: get_all_user_profiles returns stored documents, at most limit of
\* them and no two of one email, each the one with the greatest
\* uploaded_at among the documents of its email; when limit allows, every
\* email among the stored documents has exactly one document in the list.
C23_NewestPerEmail ==
    last.op = "profiles" =>
        /\ Cardinality(last.result) = Min(last.id.v, Cardinality(GroupIds(collection)))
        /\ \A doc \in last.result :
              /\ \E i \in 1..Len(collection) : doc = [collection[i] EXCEPT !["_id"] = OidStr(@)]
              /\ \A other \in last.result : other["email"] = doc["email"] => other = doc
              /\ \A i \in 1..Len(collection) :
                    GroupId(collection[i]) = GroupId(doc) =>
                        collection[i]["uploaded_at"].v <= doc["uploaded_at"].v
        /\ last.id.v >= Cardinality(GroupIds(collection)) =>
              \A i \in 1..Len(collection) :
                  collection[i]["email"] \notin {Absent, Null} =>
                      Cardinality({doc \in last.result : doc["email"] = collection[i]["email"]}) = 1

\* two stored documents have one email and the list holds the newer one,
\* which is not the first of the collection
C23_Witness ==
    /\ last.op = "profiles"
    /\ \E i, j \in 1..Len(collection) :
          /\ i < j
          /\ Truthy(collection[i]["email"])
          /\ collection[i]["email"] = collection[j]["email"]
          /\ collection[i]["uploaded_at"].v < collection[j]["uploaded_at"].v
          /\ [collection[j] EXCEPT !["_id"] = OidStr(@)] \in last.result
    /\ Cardinality(last.result) = Cardinality(GroupIds(collection))

\* the document deleted by the request handled last
Deleted == last.existing

\* this step is the upload that follows a delete and carries the email of
\* the deleted document
UploadAfterDelete ==
    /\ last.op = "delete"
    /\ last'.op = "upload"
    /\ Truthy(Deleted["email"])
    /\ last'.profile["email"] = Deleted["email"]

\* no lookup in coll returns the document with this identifier
NotReturned(coll, doc) ==
    /\ find_one(coll, "_id", doc["_id"]) = NoDoc
    /\ find_one(coll, "email", doc["email"])["_id"] # doc["_id"]
    /\ get_resume_by_s3_key(coll, doc["s3_key"])["_id"] # doc["_id"]

\* C24: a delete leaves no lookup that returns the document, and the
\* upload that follows for the same email inserts a document with a new
\* identifier.
C24_DeletedForGood ==
    [][/\ last'.op = "delete" => NotReturned(collection', last'.existing)
       /\ UploadAfterDelete =>
             /\ last'.path = "insert"
             /\ last'.id \notin Ids(collection) \cup {last.id}]_vars

\* C24, amended: a delete leaves no lookup that returns the document; the
\* upload that follows for the same email inserts a document with a new
\* identifier, made of that upload alone, when no other stored document
\* has the email, and else merges into such a document; in neither case
\* does it meet the deleted one.
C24_DeletedNotMerged ==
    [][/\ last'.op = "delete" => NotReturned(collection', last'.existing)
       /\ UploadAfterDelete =>
             /\ last'.id # last.id
             /\ last'.existing # Deleted
             /\ IF WithEmail(collection, Deleted["email"]) = {}
                THEN /\ last'.path = "insert"
                     /\ last'.id \notin Ids(collection)
                     /\ find_one(collection', "_id", last'.id) =
                            [NewDocument(BaseDocument(last'.resume_data, now), last'.profile, now)
                                EXCEPT !["_id"] = last'.id]
                ELSE /\ last'.path = "merge"
                     /\ last'.id \in Ids(collection)]_vars

\* a document with an email and skills has been deleted, with its file,
\* and no stored document has its email
C24_Witness ==
    /\ last.op = "delete"
    /\ Truthy(Deleted["email"])
    /\ IsList(Deleted["skills"])
    /\ Deleted["s3_key"] \notin bucket
    /\ WithEmail(collection, Deleted["email"]) = {}
    /\ NotReturned(collection, Deleted)
    /\ Len(collection) >= 1

\* the document of the request handled last, as it is stored now
Target == find_one(collection, "_id", last.id)

\* C25: update_resume_profile writes allowed fields and updated_at only,
\* and a body with no allowed field changes nothing and is answered 400.
C25_NoValidFieldsRejected ==
    (last.op = "update_profile" /\ last.existing # NoDoc) =>
        /\ \A k \in DocKeys \ (allowed_fields \cup {"updated_at"}) : Target[k] = last.existing[k]
        /\ (\A k \in allowed_fields : ~Has(last.profile, k)) =>
                /\ last.status_code = 400
                /\ collection = last.before

\* C26: after DELETE /resumes/{id}/profile the document holds no profile
\* field that an upload writes, and its resume metadata is as before.
C26_ProfileCleared ==
    (last.op = "delete_profile" /\ last.existing # NoDoc) =>
        /\ \A k \in ProfileKeys \ MetaKeys : Target[k] = Absent
        /\ \A k \in MetaKeys : Target[k] = last.existing[k]

\* every upload begun has written its document
AllFinished == \A p \in Requests : inflight[p].pc = "idle"

\* C27: uploads that carry the same email, started on a collection with no
\* document of that email and interleaved between lookup and write, leave
\* at most one document with that email once all of them have finished.
C27_OneDocumentPerEmail ==
    AllFinished =>
        \A i, j \in 1..Len(collection) :
            (Truthy(collection[i]["email"]) /\ collection[i]["email"] = collection[j]["email"]) => i = j

\* the storage keys the stored documents refer to
ReferencedKeys == {collection[i]["s3_key"] : i \in 1..Len(collection)}

\* C28: after any sequence of completed uploads and full deletes, every
\* object in the file store is the s3_key of some stored document.
C28_NoOrphanedFile == bucket \subseteq ReferencedKeys

\* C29: after every upload, on the insert path as on the merge path, the
\* upload-metadata fields of the stored document are those of the uploaded
\* file, whatever the extracted profile contains.
C29_MetadataOfTheUpload ==
    last.op = "upload" =>
        \A k \in MetaKeys : Written[k] = BaseDocument(last.resume_data, now - 1)[k]

\* C30: a merge never replaces a stored non-null value of a profile field
\* with null; a key the new extraction carries with the value null leaves
\* the stored value as it was.
C30_NullKeepsStored ==
    Merged =>
        \A f \in ProfileKeys \ MetaKeys :
            TruthyNotNone(last.existing[f]) =>
                /\ Written[f] # Null
                /\ last.profile[f] = Null => Written[f] = last.existing[f]

====
